---- MODULE Spec2Model ----
(***************************************************************************)
(* Model of scripts/todos.js: a hubot script that keeps todo items as      *)
(* files named by a uuid in the directory DATA_DIR.  Three commands, each  *)
(* issuing asynchronous fs calls whose callbacks reply to the message.     *)
(*                                                                         *)
(* Every fs call is one atomic step taken when it completes (the script    *)
(* relies on the file system for that); its callback runs in that step.    *)
(* A call may be made to fail by the environment (I/O error): the err      *)
(* parameter of the completion actions, recorded in the command's fault    *)
(* field.                                                                  *)
(***************************************************************************)
EXTENDS Integers, Sequences, FiniteSets

VARIABLES dirExists, loaded, files, issued, cmds

vars == <<dirExists, loaded, files, issued, cmds>>

(* ------------------------------ bounds --------------------------------- *)

\* number of distinct uuids the generator can hand out
MaxIds == 2
\* number of commands received in a run where commands overlap
MaxCmds == 3
Ids == 1..MaxIds

\* todo texts given to add, as sequences of UTF-16 code units:
\* "b" and (U+0161, U+00E9), the second one not ASCII
Todos == { <<98>>, <<353, 233>> }

(* -------------------------------- texts --------------------------------- *)
\* An id is a number of the model; Text gives the characters it stands for.
\* 1..MaxIds are the texts uuid.v4() returns; the negative numbers are other
\* texts of the same length that a user may type before ' is done'.

\* {36} in the pattern of the 'is done' listener
IdLen == 36

HexDigits ==
  <<"0", "1", "2", "3", "4", "5", "6", "7", "8", "9", "a", "b", "c", "d", "e", "f">>

Rep(c, n) == [k \in 1..n |-> c]

\* the flag i of the patterns: letters compare without case
Lower(c) ==
  CASE c = "A" -> "a" [] c = "B" -> "b" [] c = "C" -> "c"
    [] c = "D" -> "d" [] c = "E" -> "e" [] c = "F" -> "f"
    [] c = "G" -> "g" [] OTHER -> c

\* [0-9a-f] under the flag i
IsHex(c) == \E k \in 1..Len(HexDigits) : Lower(c) = HexDigits[k]

\* a uuid in its text form, xxxxxxxx-xxxx-4xxx-8xxx-xxxxxxxxxxxx, the last
\* digit telling the ids of the model apart
UuidText(i) ==
  Rep("0", 8) \o <<"-">> \o Rep("0", 4) \o <<"-", "4">> \o Rep("0", 3)
    \o <<"-", "8">> \o Rep("0", 3) \o <<"-">> \o Rep("0", 11) \o <<HexDigits[i + 1]>>

\* texts that are not ids: hex digits and hyphens in no grouping, a uuid typed
\* in capitals, and a text with a letter that is no hex digit
OtherTexts == {-1, -2, -3}

Text(i) ==
  CASE i = -1 -> Rep("a", 18) \o Rep("-", 18)
    [] i = -2 -> Rep("A", 8) \o <<"-">> \o Rep("B", 4) \o <<"-", "4">> \o Rep("C", 3)
                   \o <<"-", "8">> \o Rep("D", 3) \o <<"-">> \o Rep("E", 12)
    [] i = -3 -> Rep("g", 8) \o <<"-">> \o Rep("0", 4) \o <<"-", "4">> \o Rep("0", 3)
                   \o <<"-", "8">> \o Rep("0", 3) \o <<"-">> \o Rep("0", 12)
    [] OTHER -> UuidText(i)

Typed == Ids \cup OtherTexts

\* a pattern that asks for the groups of a uuid: 8-4-4-4-12
UuidRegex(t) ==
  /\ Len(t) = IdLen
  /\ \A k \in 1..Len(t) :
       IF k \in {9, 14, 19, 24} THEN t[k] = "-" ELSE IsHex(t[k])

\* /([0-9a-f\-]{36}) is done$/i applied to t followed by ' is done'
IsDoneRegex(t) ==
  /\ Len(t) = IdLen
  /\ \A k \in 1..Len(t) : IsHex(t[k]) \/ t[k] = "-"

(* --------------------------- pure functions ---------------------------- *)

\* writeFile given the text with no conversion to single bytes
AsciiAsIs(s) == s

\* fs.writeFile(filename, todo, 'ascii'): one byte per code unit, its low 8 bits
AsciiEncode(s) == [k \in 1..Len(s) |-> s[k] % 256]

IsCont(b) == b >= 128 /\ b <= 191

\* '' + data, data a Buffer: Buffer.prototype.toString(), i.e. UTF-8 decoding
\* with U+FFFD for every byte that starts no well-formed sequence
RECURSIVE Utf8Decode(_)
Utf8Decode(b) ==
  IF b = <<>> THEN <<>>
  ELSE IF b[1] < 128 THEN <<b[1]>> \o Utf8Decode(Tail(b))
  ELSE IF b[1] >= 194 /\ b[1] <= 223 /\ Len(b) >= 2 /\ IsCont(b[2])
    THEN <<(b[1] - 192) * 64 + (b[2] - 128)>> \o Utf8Decode(Tail(Tail(b)))
  ELSE IF b[1] >= 225 /\ b[1] <= 239 /\ b[1] # 237 /\ Len(b) >= 3
          /\ IsCont(b[2]) /\ IsCont(b[3])
    THEN <<(b[1] - 224) * 4096 + (b[2] - 128) * 64 + (b[3] - 128)>>
         \o Utf8Decode(Tail(Tail(Tail(b))))
  ELSE <<65533>> \o Utf8Decode(Tail(b))

(* ------------------------------ replies -------------------------------- *)
\* One record per msg.reply text: msg names the fixed wording, id and text the
\* parts concatenated into it.

Reply(m, i, t) == [msg |-> m, id |-> i, text |-> t]

\* 'Oh no... I couldn\'t look for todos...'
DirError == Reply("Oh no... I couldn't look for todos...", 0, <<>>)
\* 'The list is empty!'
EmptyList == Reply("The list is empty!", 0, <<>>)
\* 'Uh oh! Had trouble opening a todo...'
ReadError == Reply("Uh oh! Had trouble opening a todo...", 0, <<>>)
\* a line that leaves the content out
ItemLineIdOnly(file, data) == Reply("<id>: <content>", file, <<>>)

\* file + ': ' + data
ItemLine(file, data) == Reply("<id>: <content>", file, Utf8Decode(data))
\* 'Oh no... I couldn\'t write the todo file...'
WriteError == Reply("Oh no... I couldn't write the todo file...", 0, <<>>)
\* 'OK! I added ' + todo + ' to the todo list'
Added(todo) == Reply("OK! I added <todo> to the todo list", 0, todo)
\* 'Couldn\'t find ' + id
NotFound(id) == Reply("Couldn't find <id>", id, <<>>)
\* 'OK! Removed ' + id
Removed(id) == Reply("OK! Removed <id>", id, <<>>)

(* ------------------------------- state --------------------------------- *)
\* dirExists  DATA_DIR exists
\* loaded     module.exports(robot) has run: the handlers are registered
\* files      the directory: a function from the names in it to their bytes
\* issued     the uuids uuid.v4() has returned so far
\* cmds       the commands received, in order of arrival; per command
\*   kind     "list" | "add" | "remove" | "none" (a message no listener took)
\*   todo     add: msg.match[1]
\*   id       add: ID, remove: msg.match[1]
\*   phase    "io": readdir / writeFile / unlink pending; "done": its callback ran
\*   entries  list: the names readdir gave
\*   pending  list: the names whose readFile is pending
\*   replies  the msg.reply texts so far, in order
\*   fault    history: 0 if the environment failed the command's own call,
\*            x if it failed the readFile of x
\*   before   history, add: the directory when the command arrived
\*   gone     history, list: the ids whose removal had completed when it arrived

Entries == DOMAIN files

NoFiles == [x \in {} |-> <<>>]

\* the ids whose removal has completed
RemovedIds ==
  {cmds[j].id : j \in {n \in 1..Len(cmds) :
      cmds[n].kind = "remove" /\ cmds[n].replies = <<Removed(cmds[n].id)>>}}

NewCmd(k, t, i) ==
  [kind |-> k, todo |-> t, id |-> i, phase |-> "io", entries |-> {},
   pending |-> {}, replies |-> <<>>, fault |-> {},
   before |-> IF k = "add" THEN files ELSE NoFiles,
   gone |-> IF k = "list" THEN RemovedIds ELSE {}]

Complete(c) == c.phase = "done" /\ c.pending = {}

Idle == \A j \in 1..Len(cmds) : Complete(cmds[j])

\* commands may overlap
Room == loaded /\ Len(cmds) < MaxCmds

\* one user who sends each message after the previous one has been replied to
RoomTyped == loaded /\ Idle /\ Len(cmds) < MaxCmds

\* A user who makes the round trip, sending each command after the previous one
\* has replied, and who removes the id of the item just added
Trip == <<"list", "add", "list", "remove", "list">>

Turn(k) == loaded /\ Idle /\ Len(cmds) < Len(Trip) /\ Trip[Len(cmds) + 1] = k

AddedIds == {cmds[j].id : j \in {n \in 1..Len(cmds) : cmds[n].kind = "add"}}

Init ==
  /\ dirExists \in BOOLEAN
  /\ loaded = FALSE
  /\ files = NoFiles
  /\ issued = {}
  /\ cmds = <<>>

(* ------------------------------ actions -------------------------------- *)

\* Load that checks the directory and does not make it
LoadNoMkdir ==
  /\ ~loaded
  /\ loaded' = TRUE
  /\ UNCHANGED <<dirExists, files, issued, cmds>>

\* module.exports: fs.statSync(DATA_DIR), fs.mkdirSync(DATA_DIR) if it throws
Load ==
  /\ ~loaded
  /\ loaded' = TRUE
  /\ dirExists' = TRUE
  /\ UNCHANGED <<files, issued, cmds>>

\* 'show my todo list': fs.readdir(DATA_DIR, cb) is issued
ShowList(room) ==
  /\ room
  /\ cmds' = Append(cmds, NewCmd("list", <<>>, 0))
  /\ UNCHANGED <<dirExists, loaded, files, issued>>

\* ReaddirDone without the branch for an empty directory
ReaddirDoneNoEmptyCase(i, err) ==
  /\ cmds[i].kind = "list" /\ cmds[i].phase = "io"
  /\ IF err \/ ~dirExists
       THEN cmds' = [cmds EXCEPT ![i].phase = "done",
                                 ![i].replies = Append(@, DirError),
                                 ![i].fault = IF err THEN @ \cup {0} ELSE @]
       ELSE cmds' = [cmds EXCEPT ![i].phase = "done",
                                 ![i].entries = Entries,
                                 ![i].pending = Entries]
  /\ UNCHANGED <<dirExists, loaded, files, issued>>

\* ReaddirDone that reports the error and goes on to read the files
ReaddirDoneFallThrough(i, err) ==
  /\ cmds[i].kind = "list" /\ cmds[i].phase = "io"
  /\ IF err \/ ~dirExists
       THEN cmds' = [cmds EXCEPT ![i].phase = "done",
                                 ![i].replies = Append(@, DirError),
                                 ![i].entries = Entries,
                                 ![i].pending = Entries,
                                 ![i].fault = IF err THEN @ \cup {0} ELSE @]
       ELSE IF Cardinality(Entries) = 0
         THEN cmds' = [cmds EXCEPT ![i].phase = "done",
                                   ![i].replies = Append(@, EmptyList)]
         ELSE cmds' = [cmds EXCEPT ![i].phase = "done",
                                   ![i].entries = Entries,
                                   ![i].pending = Entries]
  /\ UNCHANGED <<dirExists, loaded, files, issued>>

\* ReaddirDone that also gives the names of the files still being written
ReaddirDoneSeesPending(i, err) ==
  LET seen == Entries \cup {cmds[a].id : a \in {n \in 1..Len(cmds) :
                               cmds[n].kind = "add" /\ cmds[n].phase = "io"}}
  IN
  /\ cmds[i].kind = "list" /\ cmds[i].phase = "io"
  /\ IF err \/ ~dirExists
       THEN cmds' = [cmds EXCEPT ![i].phase = "done",
                                 ![i].replies = Append(@, DirError),
                                 ![i].fault = IF err THEN @ \cup {0} ELSE @]
       ELSE IF Cardinality(seen) = 0
         THEN cmds' = [cmds EXCEPT ![i].phase = "done",
                                   ![i].replies = Append(@, EmptyList)]
         ELSE cmds' = [cmds EXCEPT ![i].phase = "done",
                                   ![i].entries = seen,
                                   ![i].pending = seen]
  /\ UNCHANGED <<dirExists, loaded, files, issued>>

\* the readdir callback
ReaddirDone(i, err) ==
  /\ cmds[i].kind = "list" /\ cmds[i].phase = "io"
  /\ IF err \/ ~dirExists
       THEN cmds' = [cmds EXCEPT ![i].phase = "done",
                                 ![i].replies = Append(@, DirError),
                                 ![i].fault = IF err THEN @ \cup {0} ELSE @]
       ELSE IF Cardinality(Entries) = 0
         THEN cmds' = [cmds EXCEPT ![i].phase = "done",
                                   ![i].replies = Append(@, EmptyList)]
         ELSE cmds' = [cmds EXCEPT ![i].phase = "done",
                                   ![i].entries = Entries,
                                   ![i].pending = Entries]
  /\ UNCHANGED <<dirExists, loaded, files, issued>>

\* ReadDone that says nothing when the read fails
ReadDoneSilent(i, file, err) ==
  /\ cmds[i].kind = "list" /\ file \in cmds[i].pending
  /\ IF err \/ file \notin Entries
       THEN cmds' = [cmds EXCEPT ![i].pending = @ \ {file},
                                 ![i].fault = IF err THEN @ \cup {file} ELSE @]
       ELSE cmds' = [cmds EXCEPT ![i].pending = @ \ {file},
                                 ![i].replies = Append(@, ItemLine(file, files[file]))]
  /\ UNCHANGED <<dirExists, loaded, files, issued>>

\* ReadDone in which a failed read gives up the reads still pending
ReadDoneAbort(i, file, err) ==
  /\ cmds[i].kind = "list" /\ file \in cmds[i].pending
  /\ IF err \/ file \notin Entries
       THEN cmds' = [cmds EXCEPT ![i].pending = {},
                                 ![i].replies = Append(@, ReadError),
                                 ![i].fault = IF err THEN @ \cup {file} ELSE @]
       ELSE cmds' = [cmds EXCEPT ![i].pending = @ \ {file},
                                 ![i].replies = Append(@, ItemLine(file, files[file]))]
  /\ UNCHANGED <<dirExists, loaded, files, issued>>

\* ReadDone in which a read is served only when the reads of the names before
\* it are over
ReadDoneInOrder(i, file, err) ==
  /\ cmds[i].kind = "list" /\ file \in cmds[i].pending
  /\ \A g \in cmds[i].pending : file <= g
  /\ IF err \/ file \notin Entries
       THEN cmds' = [cmds EXCEPT ![i].pending = @ \ {file},
                                 ![i].replies = Append(@, ReadError),
                                 ![i].fault = IF err THEN @ \cup {file} ELSE @]
       ELSE cmds' = [cmds EXCEPT ![i].pending = @ \ {file},
                                 ![i].replies = Append(@, ItemLine(file, files[file]))]
  /\ UNCHANGED <<dirExists, loaded, files, issued>>

\* ReadDone that passes over a file that is no longer there
ReadDoneSkipMissing(i, file, err) ==
  /\ cmds[i].kind = "list" /\ file \in cmds[i].pending
  /\ IF err
       THEN cmds' = [cmds EXCEPT ![i].pending = @ \ {file},
                                 ![i].replies = Append(@, ReadError),
                                 ![i].fault = @ \cup {file}]
       ELSE IF file \notin Entries
         THEN cmds' = [cmds EXCEPT ![i].pending = @ \ {file}]
         ELSE cmds' = [cmds EXCEPT ![i].pending = @ \ {file},
                                   ![i].replies = Append(@, ItemLine(file, files[file]))]
  /\ UNCHANGED <<dirExists, loaded, files, issued>>

\* ReadDone whose callback names the last file of the loop, not its own
ReadDoneLastName(i, file, err) ==
  LET last == CHOOSE g \in cmds[i].entries : \A h \in cmds[i].entries : h <= g IN
  /\ cmds[i].kind = "list" /\ file \in cmds[i].pending
  /\ IF err \/ file \notin Entries
       THEN cmds' = [cmds EXCEPT ![i].pending = @ \ {file},
                                 ![i].replies = Append(@, ReadError),
                                 ![i].fault = IF err THEN @ \cup {file} ELSE @]
       ELSE cmds' = [cmds EXCEPT ![i].pending = @ \ {file},
                                 ![i].replies = Append(@, ItemLine(last, files[file]))]
  /\ UNCHANGED <<dirExists, loaded, files, issued>>

\* the readFile callback of one file
ReadDone(i, file, err) ==
  /\ cmds[i].kind = "list" /\ file \in cmds[i].pending
  /\ IF err \/ file \notin Entries
       THEN cmds' = [cmds EXCEPT ![i].pending = @ \ {file},
                                 ![i].replies = Append(@, ReadError),
                                 ![i].fault = IF err THEN @ \cup {file} ELSE @]
       ELSE cmds' = [cmds EXCEPT ![i].pending = @ \ {file},
                                 ![i].replies = Append(@, ItemLine(file, files[file]))]
  /\ UNCHANGED <<dirExists, loaded, files, issued>>

\* AddTodo whose generator may return an id it has returned before
AddTodoSameId(room, todo, ID) ==
  /\ room
  /\ issued' = issued \cup {ID}
  /\ cmds' = Append(cmds, NewCmd("add", todo, ID))
  /\ UNCHANGED <<dirExists, loaded, files>>

\* 'add <todo> to my todo list': ID = uuid.v4(), fs.writeFile is issued
AddTodo(room, todo, ID) ==
  /\ room
  /\ ID \notin issued
  /\ issued' = issued \cup {ID}
  /\ cmds' = Append(cmds, NewCmd("add", todo, ID))
  /\ UNCHANGED <<dirExists, loaded, files>>

\* WriteDone with the test of error inverted
WriteDoneSwapped(i, err) ==
  /\ cmds[i].kind = "add" /\ cmds[i].phase = "io"
  /\ IF err \/ ~dirExists
       THEN /\ cmds' = [cmds EXCEPT ![i].phase = "done",
                                    ![i].replies = Append(@, Added(cmds[i].todo)),
                                    ![i].fault = IF err THEN @ \cup {0} ELSE @]
            /\ files' = files
       ELSE /\ files' = [x \in Entries \cup {cmds[i].id} |->
                           IF x = cmds[i].id THEN AsciiEncode(cmds[i].todo)
                           ELSE files[x]]
            /\ cmds' = [cmds EXCEPT ![i].phase = "done",
                                    ![i].replies = Append(@, WriteError)]
  /\ UNCHANGED <<dirExists, loaded, issued>>

\* WriteDone whose write leaves the new file alone in the directory
WriteDoneClobber(i, err) ==
  /\ cmds[i].kind = "add" /\ cmds[i].phase = "io"
  /\ IF err \/ ~dirExists
       THEN /\ cmds' = [cmds EXCEPT ![i].phase = "done",
                                    ![i].replies = Append(@, WriteError),
                                    ![i].fault = IF err THEN @ \cup {0} ELSE @]
            /\ files' = files
       ELSE /\ files' = [x \in {cmds[i].id} |-> AsciiEncode(cmds[i].todo)]
            /\ cmds' = [cmds EXCEPT ![i].phase = "done",
                                    ![i].replies = Append(@, Added(cmds[i].todo))]
  /\ UNCHANGED <<dirExists, loaded, issued>>

\* WriteDone that reports a failed write and issues the write again
WriteDoneRetry(i, err) ==
  /\ cmds[i].kind = "add" /\ cmds[i].phase = "io"
  /\ IF err \/ ~dirExists
       THEN /\ cmds' = [cmds EXCEPT ![i].replies = Append(@, WriteError),
                                    ![i].fault = IF err THEN @ \cup {0} ELSE @]
            /\ files' = files
       ELSE /\ files' = [x \in Entries \cup {cmds[i].id} |->
                           IF x = cmds[i].id THEN AsciiEncode(cmds[i].todo)
                           ELSE files[x]]
            /\ cmds' = [cmds EXCEPT ![i].phase = "done",
                                    ![i].replies = Append(@, Added(cmds[i].todo))]
  /\ UNCHANGED <<dirExists, loaded, issued>>

\* the writeFile callback
WriteDone(i, err) ==
  /\ cmds[i].kind = "add" /\ cmds[i].phase = "io"
  /\ IF err \/ ~dirExists
       THEN /\ cmds' = [cmds EXCEPT ![i].phase = "done",
                                    ![i].replies = Append(@, WriteError),
                                    ![i].fault = IF err THEN @ \cup {0} ELSE @]
            /\ files' = files
       ELSE /\ files' = [x \in Entries \cup {cmds[i].id} |->
                           IF x = cmds[i].id THEN AsciiEncode(cmds[i].todo)
                           ELSE files[x]]
            /\ cmds' = [cmds EXCEPT ![i].phase = "done",
                                    ![i].replies = Append(@, Added(cmds[i].todo))]
  /\ UNCHANGED <<dirExists, loaded, issued>>

\* '<id> is done': fs.unlink is issued
IsDone(room, id) ==
  /\ room
  /\ IsDoneRegex(Text(id))
  /\ cmds' = Append(cmds, NewCmd("remove", <<>>, id))
  /\ UNCHANGED <<dirExists, loaded, files, issued>>

\* a text before ' is done' that the pattern does not match: no listener runs;
\* the message is kept as one that was received and is over
Unheard(room, id) ==
  /\ room
  /\ ~IsDoneRegex(Text(id))
  /\ cmds' = Append(cmds, [NewCmd("none", <<>>, id) EXCEPT !.phase = "done"])
  /\ UNCHANGED <<dirExists, loaded, files, issued>>

\* UnlinkDone that confirms the removal and leaves the file in place
UnlinkDoneKeepsFile(i, err) ==
  /\ cmds[i].kind = "remove" /\ cmds[i].phase = "io"
  /\ IF err \/ cmds[i].id \notin Entries
       THEN cmds' = [cmds EXCEPT ![i].phase = "done",
                                 ![i].replies = Append(@, NotFound(cmds[i].id)),
                                 ![i].fault = IF err THEN @ \cup {0} ELSE @]
       ELSE cmds' = [cmds EXCEPT ![i].phase = "done",
                                 ![i].replies = Append(@, Removed(cmds[i].id))]
  /\ UNCHANGED <<dirExists, loaded, files, issued>>

\* UnlinkDone with the test of error inverted
UnlinkDoneSwapped(i, err) ==
  /\ cmds[i].kind = "remove" /\ cmds[i].phase = "io"
  /\ IF err \/ cmds[i].id \notin Entries
       THEN /\ cmds' = [cmds EXCEPT ![i].phase = "done",
                                    ![i].replies = Append(@, Removed(cmds[i].id)),
                                    ![i].fault = IF err THEN @ \cup {0} ELSE @]
            /\ files' = files
       ELSE /\ files' = [x \in Entries \ {cmds[i].id} |-> files[x]]
            /\ cmds' = [cmds EXCEPT ![i].phase = "done",
                                    ![i].replies = Append(@, NotFound(cmds[i].id))]
  /\ UNCHANGED <<dirExists, loaded, issued>>

\* UnlinkDone without the else: the confirmation follows the error message
UnlinkDoneNoElse(i, err) ==
  /\ cmds[i].kind = "remove" /\ cmds[i].phase = "io"
  /\ IF err \/ cmds[i].id \notin Entries
       THEN /\ cmds' = [cmds EXCEPT ![i].phase = "done",
                                    ![i].replies = @ \o <<NotFound(cmds[i].id),
                                                          Removed(cmds[i].id)>>,
                                    ![i].fault = IF err THEN @ \cup {0} ELSE @]
            /\ files' = files
       ELSE /\ files' = [x \in Entries \ {cmds[i].id} |-> files[x]]
            /\ cmds' = [cmds EXCEPT ![i].phase = "done",
                                    ![i].replies = Append(@, Removed(cmds[i].id))]
  /\ UNCHANGED <<dirExists, loaded, issued>>

\* the unlink callback
UnlinkDone(i, err) ==
  /\ cmds[i].kind = "remove" /\ cmds[i].phase = "io"
  /\ IF err \/ cmds[i].id \notin Entries
       THEN /\ cmds' = [cmds EXCEPT ![i].phase = "done",
                                    ![i].replies = Append(@, NotFound(cmds[i].id)),
                                    ![i].fault = IF err THEN @ \cup {0} ELSE @]
            /\ files' = files
       ELSE /\ files' = [x \in Entries \ {cmds[i].id} |-> files[x]]
            /\ cmds' = [cmds EXCEPT ![i].phase = "done",
                                    ![i].replies = Append(@, Removed(cmds[i].id))]
  /\ UNCHANGED <<dirExists, loaded, issued>>

Next ==
  \/ Load
  \/ ShowList(Room)
  \/ \E todo \in Todos, ID \in Ids : AddTodo(Room, todo, ID)
  \/ \E id \in Ids : IsDone(Room, id)
  \/ \E i \in 1..Len(cmds), err \in BOOLEAN : ReaddirDone(i, err)
  \/ \E i \in 1..Len(cmds), file \in Ids, err \in BOOLEAN : ReadDone(i, file, err)
  \/ \E i \in 1..Len(cmds), err \in BOOLEAN : WriteDone(i, err)
  \/ \E i \in 1..Len(cmds), err \in BOOLEAN : UnlinkDone(i, err)

Spec == Init /\ [][Next]_vars

\* The round trip starts in a process whose directory holds what earlier runs
\* left in it: any files whose names the generator returned then.
InitTrip ==
  /\ \E S \in SUBSET Ids :
        /\ files \in [S -> {AsciiEncode(t) : t \in Todos}]
        /\ issued = S
        /\ dirExists \in (IF S = {} THEN BOOLEAN ELSE {TRUE})
  /\ loaded = FALSE
  /\ cmds = <<>>

NextTrip ==
  \/ Load
  \/ ShowList(Turn("list"))
  \/ \E todo \in Todos, ID \in Ids : AddTodo(Turn("add"), todo, ID)
  \/ \E id \in AddedIds : IsDone(Turn("remove"), id)
  \/ \E i \in 1..Len(cmds), err \in BOOLEAN : ReaddirDone(i, err)
  \/ \E i \in 1..Len(cmds), file \in Ids, err \in BOOLEAN : ReadDone(i, file, err)
  \/ \E i \in 1..Len(cmds), err \in BOOLEAN : WriteDone(i, err)
  \/ \E i \in 1..Len(cmds), err \in BOOLEAN : UnlinkDone(i, err)

SpecTrip == InitTrip /\ [][NextTrip]_vars

\* One user typing any text of the length of an id before ' is done'
NextTyped ==
  \/ Load
  \/ ShowList(RoomTyped)
  \/ \E todo \in Todos, ID \in Ids : AddTodo(RoomTyped, todo, ID)
  \/ \E id \in Typed : IsDone(RoomTyped, id)
  \/ \E id \in Typed : Unheard(RoomTyped, id)
  \/ \E i \in 1..Len(cmds), err \in BOOLEAN : ReaddirDone(i, err)
  \/ \E i \in 1..Len(cmds), file \in Ids, err \in BOOLEAN : ReadDone(i, file, err)
  \/ \E i \in 1..Len(cmds), err \in BOOLEAN : WriteDone(i, err)
  \/ \E i \in 1..Len(cmds), err \in BOOLEAN : UnlinkDone(i, err)

SpecTyped == Init /\ [][NextTyped]_vars

(* ---------------------------- properties ------------------------------- *)

ListCmds == {i \in 1..Len(cmds) : cmds[i].kind = "list"}
AddCmds == {i \in 1..Len(cmds) : cmds[i].kind = "add"}
RemoveCmds == {i \in 1..Len(cmds) : cmds[i].kind = "remove"}

\* the todo text given to the add command that was handed the id x
TodoOf(x) == cmds[CHOOSE i \in AddCmds : cmds[i].id = x].todo

\* the line a list shows for the item x: the id, then the stored bytes of its
\* todo text read back as UTF-8
LineOf(x) ==
  [msg |-> "<id>: <content>", id |-> x,
   text |-> Utf8Decode([k \in 1..Len(TodoOf(x)) |-> TodoOf(x)[k] % 256])]

\* the positions in the replies of c that hold the reply r
Where(c, r) == {k \in 1..Len(c.replies) : c.replies[k] = r}

\* the entries of the list c for which it has shown the item line
Shown(c) == {x \in c.entries : Where(c, LineOf(x)) # {}}

\* a command that has replied to all its calls receives and says nothing more
Settled(i) == Complete(cmds[i]) => cmds'[i] = cmds[i]

\* C1: a list whose readdir gave n >= 1 names and whose reads have all
\* completed has replied exactly n times, once per name: the item line of that
\* name, or the trouble message; never the empty-list or the directory-error
\* message.
ListRepliesOncePerEntry ==
  \A i \in ListCmds :
    LET c == cmds[i] IN
    (c.phase = "done" /\ c.entries # {} /\ c.pending = {}) =>
      /\ Len(c.replies) = Cardinality(c.entries)
      /\ \A x \in c.entries : Cardinality(Where(c, LineOf(x))) <= 1
      /\ Cardinality(Where(c, ReadError)) = Cardinality(c.entries \ Shown(c))
      /\ \A k \in 1..Len(c.replies) :
           \/ c.replies[k] = ReadError
           \/ \E x \in c.entries : c.replies[k] = LineOf(x)
      /\ Where(c, EmptyList) = {} /\ Where(c, DirError) = {}

\* a list over two entries has shown both item lines
ListShownBoth ==
  \E i \in ListCmds :
    /\ Complete(cmds[i]) /\ Cardinality(cmds[i].entries) = 2
    /\ Shown(cmds[i]) = cmds[i].entries

\* C2: when readdir succeeds with no names, the list replies 'The list is
\* empty!' and issues no read, and nothing more is ever replied to it.
EmptyListOnly ==
  [][\A i \in ListCmds :
       /\ (cmds[i].phase = "io" /\ cmds'[i].phase = "done"
           /\ dirExists /\ 0 \notin cmds'[i].fault /\ Entries = {})
          => /\ cmds'[i].replies = <<EmptyList>>
             /\ cmds'[i].entries = {} /\ cmds'[i].pending = {}
       /\ Settled(i)]_vars

\* a list has replied to a directory that a removal had emptied
EmptyListReplied ==
  \E i \in ListCmds :
    /\ cmds[i].replies = <<EmptyList>> /\ Complete(cmds[i])
    /\ cmds[i].fault = {} /\ RemovedIds # {}

\* C3: when readdir fails, the list replies 'Oh no... I couldn't look for
\* todos...' and issues no read, and nothing more is ever replied to it.
DirErrorOnly ==
  [][\A i \in ListCmds :
       /\ (cmds[i].phase = "io" /\ cmds'[i].phase = "done"
           /\ (0 \in cmds'[i].fault \/ ~dirExists))
          => /\ cmds'[i].replies = <<DirError>>
             /\ cmds'[i].entries = {} /\ cmds'[i].pending = {}
       /\ Settled(i)]_vars

\* the readdir of a list failed while the directory held a file
DirErrorReplied ==
  \E i \in ListCmds :
    /\ cmds[i].replies = <<DirError>> /\ 0 \in cmds[i].fault
    /\ Complete(cmds[i]) /\ Entries # {}

\* C4: in a list whose reads have all completed, every entry whose read did
\* not fail (the file was never removed and the environment did not fail the
\* read) has its item line, whatever happened to the other entries and
\* whatever the order of the completions; an entry whose read the environment
\* failed has no item line, and there are as many trouble messages as entries
\* without an item line.
OneBadFileOnly ==
  \A i \in ListCmds :
    LET c == cmds[i] IN
    Complete(c) =>
      /\ \A x \in c.entries :
           /\ (x \notin c.fault /\ x \notin RemovedIds)
                => Cardinality(Where(c, LineOf(x))) = 1
           /\ x \in c.fault => Where(c, LineOf(x)) = {}
      /\ Cardinality(Where(c, ReadError)) = Cardinality(c.entries \ Shown(c))

\* a list over two entries: the first read to complete failed, the other one
\* then showed its line
OneBadFileSeen ==
  \E i \in ListCmds :
    /\ Complete(cmds[i]) /\ Cardinality(cmds[i].entries) = 2
    /\ Cardinality(cmds[i].fault) = 1
    /\ cmds[i].replies[1] = ReadError
    /\ \E x \in cmds[i].entries : cmds[i].replies[2] = LineOf(x)

\* the add commands whose write has succeeded, and their ids
AddsDone == {i \in AddCmds : cmds[i].replies = <<Added(cmds[i].todo)>>}
AddsDoneIds == {cmds[i].id : i \in AddsDone}
\* the remove commands whose delete has succeeded
RemovesDone == {i \in RemoveCmds : cmds[i].replies = <<Removed(cmds[i].id)>>}

\* the callback of the command's own call (readdir, writeFile, unlink) runs
Finishing(i) == cmds[i].phase = "io" /\ cmds'[i].phase = "done"

\* C5 (as amended): when the write of an add with content c succeeds, the
\* directory is the previous one plus one new name, the id, whose file holds
\* the low byte of each character of c; every file that was there is there
\* with the same content; the reply is 'OK! I added <c> to the todo list'.
AddCreatesOneFile ==
  [][\A i \in AddCmds :
       (Finishing(i) /\ dirExists /\ 0 \notin cmds'[i].fault) =>
         LET x == cmds[i].id
             c == cmds[i].todo
         IN /\ x \notin Entries
            /\ DOMAIN files' = Entries \cup {x}
            /\ files'[x] = [k \in 1..Len(c) |-> c[k] % 256]
            /\ \A y \in Entries : files'[y] = files[y]
            /\ cmds'[i].replies = <<Added(c)>>]_vars

\* C5 (as claimed): ... the new file's content is c.
AddStoresTodoText ==
  [][\A i \in AddCmds :
       (Finishing(i) /\ dirExists /\ 0 \notin cmds'[i].fault) =>
         LET x == cmds[i].id
             c == cmds[i].todo
         IN /\ x \notin Entries
            /\ DOMAIN files' = Entries \cup {x}
            /\ files'[x] = c
            /\ \A y \in Entries : files'[y] = files[y]
            /\ cmds'[i].replies = <<Added(c)>>]_vars

\* an add of a text that is not ASCII has succeeded next to another file
AddedNonAscii ==
  \E i \in AddsDone :
    /\ cmds[i].todo = <<353, 233>>
    /\ cmds[i].id \in Entries /\ files[cmds[i].id] = <<97, 233>>
    /\ Cardinality(Entries) = 2

\* C6: when the write of an add fails, the reply is 'Oh no... I couldn't write
\* the todo file...', the directory is what it was, and nothing more is ever
\* replied to the command.
WriteFailureCreatesNothing ==
  [][\A i \in AddCmds :
       /\ (Finishing(i) /\ (0 \in cmds'[i].fault \/ ~dirExists))
            => /\ cmds'[i].replies = <<WriteError>>
               /\ files' = files
       /\ Settled(i)]_vars

\* the write of an add failed next to a file, and its id names no file
WriteFailed ==
  \E i \in AddCmds :
    /\ cmds[i].replies = <<WriteError>> /\ 0 \in cmds[i].fault
    /\ cmds[i].id \notin Entries /\ Entries # {}

\* C7: no two add commands have the same id, and the directory holds exactly
\* the ids of the adds that succeeded and were not removed: as many entries as
\* successful adds minus successful removes.
OneEntryPerItem ==
  /\ \A i, j \in AddCmds : i # j => cmds[i].id # cmds[j].id
  /\ Entries = AddsDoneIds \ RemovedIds
  /\ Cardinality(Entries) = Cardinality(AddsDone) - Cardinality(RemovesDone)

\* two adds have succeeded and one of the two items has been removed
TwoAddedOneRemoved ==
  /\ Cardinality(AddsDone) = 2 /\ Cardinality(RemovesDone) = 1
  /\ Cardinality(Entries) = 1

\* C8: a delete that runs while the file of its id exists (the item was added
\* and not yet removed) and that the environment does not fail replies
\* 'OK! Removed <id>' and takes the file away; and no list shows a line for an
\* id whose removal had completed when the list arrived.
RemovedIsNotListed ==
  [][\A i \in 1..Len(cmds) :
       /\ (cmds[i].kind = "remove" /\ Finishing(i)
           /\ cmds[i].id \in Entries /\ 0 \notin cmds'[i].fault)
            => /\ cmds'[i].replies = <<Removed(cmds[i].id)>>
               /\ DOMAIN files' = Entries \ {cmds[i].id}
       /\ cmds[i].kind = "list"
            => \A k \in 1..Len(cmds'[i].replies) :
                 cmds'[i].replies[k].msg = "<id>: <content>"
                   => cmds'[i].replies[k].id \notin cmds[i].gone]_vars

\* an added item has been removed, and a list that arrived afterwards is over
RemovedThenListed ==
  \E r \in RemovesDone, l \in ListCmds :
    /\ cmds[r].id \in AddsDoneIds
    /\ r < l /\ cmds[r].id \in cmds[l].gone /\ Complete(cmds[l])

\* C9: a delete of an id that no add has written replies 'Couldn't find <id>'
\* and leaves the directory as it was, names and contents; nothing more is
\* ever replied to the command.
RemoveUnknownId ==
  [][\A i \in RemoveCmds :
       /\ (Finishing(i) /\ cmds[i].id \notin AddsDoneIds)
            => /\ cmds'[i].replies = <<NotFound(cmds[i].id)>>
               /\ files' = files
       /\ Settled(i)]_vars

\* the removal of an id the generator never returned has been refused, the
\* delete not being failed by the environment, in a directory that holds a file
UnknownIdRefused ==
  \E i \in RemoveCmds :
    /\ cmds[i].replies = <<NotFound(cmds[i].id)>> /\ cmds[i].fault = {}
    /\ cmds[i].id \notin issued /\ Entries # {}

\* the texts replied to c, as a set
Lines(c) == {c.replies[k] : k \in 1..Len(c.replies)}

\* the round trip is over and the environment failed none of its calls
TripDone ==
  /\ Len(cmds) = Len(Trip) /\ Idle
  /\ \A j \in 1..Len(cmds) : cmds[j].fault = {}

\* C10: after list, add, list, remove of the id just added, list, each sent
\* when the previous one has replied, the directory is what it was before the
\* add, names and contents, and the last list shows the same set of lines as
\* the list before the add; in between, the add and the remove were confirmed
\* and the middle list showed one line more.
RoundTrip ==
  TripDone =>
    /\ cmds[2].replies = <<Added(cmds[2].todo)>>
    /\ cmds[4].replies = <<Removed(cmds[2].id)>>
    /\ files = cmds[2].before
    /\ Lines(cmds[5]) = Lines(cmds[1])
    /\ cmds[3].entries = DOMAIN cmds[2].before \cup {cmds[2].id}
    /\ cmds[2].id \notin DOMAIN cmds[2].before

\* a round trip is over in a directory that held a file before it
TripMade ==
  /\ TripDone
  /\ DOMAIN cmds[2].before # {}
  /\ Len(cmds[5].replies) = 1 /\ Len(cmds[3].replies) = 2

\* the grouping 8-4-4-4-12 of hex digits, in either case
UuidForm(t) ==
  /\ Len(t) = 36
  /\ \A k \in 1..Len(t) :
       IF k \in {9, 14, 19, 24} THEN t[k] = "-"
       ELSE Lower(t[k]) \in {HexDigits[n] : n \in 1..16}

\* 36 characters, each a hex digit in either case or a hyphen
HexOrHyphen36(t) ==
  /\ Len(t) = 36
  /\ \A k \in 1..Len(t) : t[k] = "-" \/ Lower(t[k]) \in {HexDigits[n] : n \in 1..16}

\* a message '<text> is done' arrives: the text, and what became of it
Arrives == Len(cmds') = Len(cmds) + 1 /\ cmds'[Len(cmds')].kind \in {"remove", "none"}
ArrivedText == Text(cmds'[Len(cmds')].id)
Dispatched == cmds'[Len(cmds')].kind = "remove"

\* C12 (as amended): '<text> is done' is dispatched to remove exactly when the
\* text is 36 characters each of which is a hex digit (either case) or a
\* hyphen, in any grouping; a dispatched text that is not the name of a file
\* is answered 'Couldn't find <text>' and nothing is deleted.
DoneDispatch ==
  [][/\ Arrives => (Dispatched <=> HexOrHyphen36(ArrivedText))
     /\ \A i \in RemoveCmds :
          (Finishing(i) /\ cmds[i].id \notin Ids)
            => /\ cmds'[i].replies = <<NotFound(cmds[i].id)>>
               /\ files' = files]_vars

\* C12 (as claimed): '<text> is done' is dispatched to remove only when the
\* text has the form 8-4-4-4-12, and no other text causes a deletion.
DoneDispatchUuidOnly ==
  [][/\ Arrives => (Dispatched => UuidForm(ArrivedText))
     /\ \A i \in RemoveCmds :
          (Finishing(i) /\ ~UuidForm(Text(cmds[i].id))) => files' = files]_vars

\* next to a file, a text of hex digits and hyphens in no grouping was
\* dispatched and refused, and a text with another letter was not dispatched
DoneDispatchSeen ==
  /\ Entries # {}
  /\ \E i \in RemoveCmds :
       /\ ~UuidForm(Text(cmds[i].id))
       /\ cmds[i].replies = <<NotFound(cmds[i].id)>> /\ cmds[i].fault = {}
  /\ \E i \in 1..Len(cmds) : cmds[i].kind = "none"

\* list, add, list have been sent one after the other and are over, and the
\* environment failed none of their calls
AddListed ==
  /\ Len(cmds) >= 3
  /\ \A j \in 1..3 : Complete(cmds[j]) /\ cmds[j].fault = {}

\* the lines of the list after the add that the list before it did not show
NewLines == Lines(cmds[3]) \ Lines(cmds[1])

IsAscii(c) == \A k \in 1..Len(c) : c[k] < 128

\* C11 (as amended): after a successful add with content c and no other
\* command in between, a list shows exactly one line that was not there
\* before; it is the line of the id given to the add, an id that is new and
\* has the 36-character hex-hyphen form; and when c is plain ASCII the content
\* shown is c.
AddedIsListed ==
  AddListed =>
    /\ Cardinality(NewLines) = 1
    /\ \A r \in NewLines :
         /\ r.msg = "<id>: <content>" /\ r.id = cmds[2].id
         /\ IsAscii(cmds[2].todo) => r.text = cmds[2].todo
    /\ cmds[2].id \notin DOMAIN cmds[2].before
    /\ UuidForm(Text(cmds[2].id))

\* C11 (as claimed): ... the content shown equals the content given to add.
AddedIsListedAsGiven ==
  AddListed =>
    /\ Cardinality(NewLines) = 1
    /\ \A r \in NewLines :
         /\ r.msg = "<id>: <content>" /\ r.id = cmds[2].id
         /\ r.text = cmds[2].todo
    /\ cmds[2].id \notin DOMAIN cmds[2].before
    /\ UuidForm(Text(cmds[2].id))

\* 'b' has been added next to a file and the list after it is over
AddedAsciiListed ==
  /\ AddListed
  /\ cmds[2].todo = <<98>> /\ DOMAIN cmds[2].before # {}
  /\ Len(cmds[3].replies) = 2

\* the message that reports the failure of the command's own call
OwnError(c) ==
  CASE c.kind = "list" -> DirError
    [] c.kind = "add" -> WriteError
    [] OTHER -> NotFound(c.id)

\* a command before i had one of its calls failed by the environment
AfterFailure(i) == \E j \in 1..(i - 1) : cmds[j].fault # {}

\* C13: a failed call is reported by one reply and is not issued again (a
\* command whose callback has run no longer waits for that call, and replies
\* only while a call of its own completes); the failure changes nothing else:
\* the handlers stay registered, the directory and the other commands are as
\* they were; and a command that comes after a failure and whose own call is
\* not failed is served as usual.
FailuresAreContained ==
  [][/\ loaded => loaded'
     /\ dirExists => dirExists'
     /\ \A i \in 1..Len(cmds) :
          /\ cmds[i].phase = "done"
               => /\ cmds'[i].phase = "done"
                  /\ cmds'[i].entries = cmds[i].entries
                  /\ cmds'[i].pending \subseteq cmds[i].pending
          /\ cmds'[i].phase = "io" => cmds'[i].replies = <<>>
          /\ Len(cmds'[i].replies) <= Len(cmds[i].replies) + 1
          /\ cmds'[i].fault # cmds[i].fault
               => /\ cmds'[i].replies = Append(cmds[i].replies,
                        IF 0 \in cmds'[i].fault \ cmds[i].fault
                          THEN OwnError(cmds[i]) ELSE ReadError)
                  /\ Cardinality(cmds'[i].fault) = Cardinality(cmds[i].fault) + 1
                  /\ files' = files
                  /\ \A j \in 1..Len(cmds) : j # i => cmds'[j] = cmds[j]
          /\ (AfterFailure(i) /\ Finishing(i) /\ 0 \notin cmds'[i].fault)
               => CASE cmds[i].kind = "add" ->
                         /\ cmds'[i].replies = <<Added(cmds[i].todo)>>
                         /\ cmds[i].id \in DOMAIN files'
                    [] cmds[i].kind = "remove" ->
                         IF cmds[i].id \in Entries
                           THEN /\ cmds'[i].replies = <<Removed(cmds[i].id)>>
                                /\ cmds[i].id \notin DOMAIN files'
                           ELSE cmds'[i].replies = <<NotFound(cmds[i].id)>>
                    [] OTHER ->
                         IF Entries = {} THEN cmds'[i].replies = <<EmptyList>>
                         ELSE cmds'[i].pending = Entries]_vars

\* the first command failed; an add sent after it succeeded and a list sent
\* after that showed the item
ServedAfterFailure ==
  /\ Len(cmds) = 3
  /\ cmds[1].fault # {} /\ Complete(cmds[1])
  /\ 2 \in AddsDone
  /\ cmds[3].kind = "list" /\ Complete(cmds[3])
  /\ cmds[3].replies = <<LineOf(cmds[2].id)>>

\* C14: a command has no reply while its own call is pending, and a list has
\* as many replies as reads that are over; and whatever else is pending, every
\* pending call can complete at once: the callback of a pending readdir,
\* writeFile or unlink, and that of each pending read of a list, is enabled
\* in every reachable state, so none waits for another.
OwnCallOnly ==
  \A i \in 1..Len(cmds) :
    /\ cmds[i].phase = "io"
         => /\ cmds[i].replies = <<>>
            /\ CASE cmds[i].kind = "list" -> ENABLED ReaddirDone(i, FALSE)
                 [] cmds[i].kind = "add" -> ENABLED WriteDone(i, FALSE)
                 [] OTHER -> ENABLED UnlinkDone(i, FALSE)
    /\ cmds[i].entries # {}
         => /\ Len(cmds[i].replies) = Cardinality(cmds[i].entries \ cmds[i].pending)
            /\ \A file \in cmds[i].pending : ENABLED ReadDone(i, file, FALSE)

\* a list over two names still waits for the read of the first one, and the
\* read of the second one is over and replied
StuckReadAlone ==
  \E l \in ListCmds :
    /\ Cardinality(cmds[l].entries) = 2
    /\ Cardinality(cmds[l].pending) = 1
    /\ \A f \in cmds[l].pending, g \in cmds[l].entries : f <= g
    /\ Len(cmds[l].replies) = 1

\* the plugin is loaded in this step
Loading == ~loaded /\ loaded'

\* C15: no command is received, and no callback runs, before the plugin is
\* loaded and the directory exists; loading makes the directory, empty, when it
\* is absent, and changes nothing of a directory that exists: same names, same
\* contents.
DirectoryFirst ==
  [][/\ Len(cmds') > 0 => (loaded' /\ dirExists')
     /\ cmds' # cmds => (loaded /\ dirExists)
     /\ Loading => /\ dirExists'
                   /\ files' = files /\ issued' = issued /\ cmds' = cmds
                   /\ ~dirExists => files' = NoFiles]_vars

\* the plugin was loaded over a directory that held files, and a list has
\* then enumerated them
LoadedOverFiles ==
  /\ loaded /\ Len(cmds) >= 1
  /\ cmds[1].phase = "done" /\ cmds[1].entries # {}
  /\ cmds[1].entries = Entries

\* C16: a list shows the item of an add exactly when the write had completed
\* (and the item had not been removed) at the time of the list's readdir,
\* whichever of the two commands came first; and in either case the list has
\* one reply for each name it enumerated whose read is over.
ListSeesCompletedWrites ==
  [][\A l \in ListCmds :
       /\ (Finishing(l) /\ 0 \notin cmds'[l].fault)
            => \A a \in AddCmds :
                 cmds[a].id \in cmds'[l].entries
                   <=> (a \in AddsDone /\ cmds[a].id \notin RemovedIds)
       /\ cmds'[l].entries # {}
            => Len(cmds'[l].replies)
                 = Cardinality(cmds'[l].entries \ cmds'[l].pending)]_vars

\* both outcomes in one run: a list that came before the add and enumerated
\* after the write shows the item; a list that came after the add and
\* enumerated before the write found the directory empty
ListedAndMissed ==
  /\ Len(cmds) = 3 /\ Idle
  /\ cmds[1].kind = "list" /\ 2 \in AddsDone /\ cmds[3].kind = "list"
  /\ cmds[1].replies = <<LineOf(cmds[2].id)>>
  /\ cmds[3].replies = <<EmptyList>>

\* C17: when the read of a name x that a list enumerated completes, the list
\* gets exactly one more reply and x is the only name it stops waiting for:
\* the trouble message if the file of x has been removed since the readdir
\* (or the environment failed the read), the item line of x otherwise; the
\* list had no line for x before.
RemovedUnderList ==
  [][\A l \in ListCmds :
       \A x \in cmds[l].pending \ cmds'[l].pending :
         /\ cmds'[l].pending = cmds[l].pending \ {x}
         /\ Where(cmds[l], LineOf(x)) = {}
         /\ cmds'[l].replies =
              Append(cmds[l].replies,
                     IF x \in Entries /\ x \notin cmds'[l].fault
                       THEN LineOf(x) ELSE ReadError)
         /\ x \in RemovedIds => cmds'[l].replies = Append(cmds[l].replies, ReadError)]_vars

\* a list enumerated an item, the item was removed, and the read, which the
\* environment did not fail, gave the trouble message
RemovedBeforeRead ==
  \E l \in ListCmds :
    \E x \in cmds[l].entries :
      /\ x \in RemovedIds /\ x \notin cmds[l].fault
      /\ Complete(cmds[l]) /\ cmds[l].replies = <<ReadError>>

\* the number of replies to the add and remove commands among the first n
RECURSIVE WriteReplies(_)
WriteReplies(n) ==
  IF n = 0 THEN 0
  ELSE WriteReplies(n - 1)
         + (IF cmds[n].kind \in {"add", "remove"} THEN Len(cmds[n].replies) ELSE 0)

\* the add and remove commands whose writeFile or unlink callback has run
WritesOver == {i \in AddCmds \cup RemoveCmds : cmds[i].phase = "done"}

\* C18: an add or remove command has no reply while its call is pending and
\* exactly one once it has completed, the confirmation or the failure message
\* of its kind; so the replies to adds and removes are as many as the
\* completed writeFile and unlink calls.
OneReplyPerWrite ==
  /\ \A i \in AddCmds \cup RemoveCmds :
       IF cmds[i].phase = "io" THEN cmds[i].replies = <<>>
       ELSE /\ Len(cmds[i].replies) = 1
            /\ IF cmds[i].kind = "add"
                 THEN cmds[i].replies[1] \in {Added(cmds[i].todo), WriteError}
                 ELSE cmds[i].replies[1] \in {Removed(cmds[i].id), NotFound(cmds[i].id)}
  /\ WriteReplies(Len(cmds)) = Cardinality(WritesOver)

\* three adds and removes are over: an add confirmed, a remove confirmed and a
\* remove refused
ThreeWritesOver ==
  /\ Cardinality(WritesOver) = 3
  /\ Cardinality(AddsDone) = 1 /\ Cardinality(RemovesDone) = 1
  /\ \E i \in RemoveCmds : cmds[i].replies = <<NotFound(cmds[i].id)>>

\* C19: every item line of a list carries a name the list enumerated together
\* with the content of the file of that name, and no two lines of a list carry
\* the same name.
LinePairsNameAndContent ==
  \A l \in ListCmds :
    \A k \in 1..Len(cmds[l].replies) :
      LET r == cmds[l].replies[k] IN
      r.msg = "<id>: <content>" =>
        /\ r.id \in cmds[l].entries
        /\ r = LineOf(r.id)
        /\ \A n \in 1..Len(cmds[l].replies) :
             (n # k /\ cmds[l].replies[n].msg = "<id>: <content>")
               => cmds[l].replies[n].id # r.id

\* a list showed two items of different contents, the read of the second name
\* completing first
TwoLinesOutOfOrder ==
  \E l \in ListCmds :
    /\ Complete(cmds[l]) /\ Len(cmds[l].replies) = 2
    /\ cmds[l].replies[1].msg = "<id>: <content>"
    /\ cmds[l].replies[2].msg = "<id>: <content>"
    /\ cmds[l].replies[1].id > cmds[l].replies[2].id
    /\ cmds[l].replies[1].text # cmds[l].replies[2].text

====
